---- MODULE Spec2Model ----
(***************************************************************************)
(* Control plane of the emo-chan desktop companion: the renderer's         *)
(* WebSocketClient, the WebSocketProvider that publishes the last inbound  *)
(* message, and the RouteComponent state machines (peripheral connection,  *)
(* media snapshot and media history) that interpret it; and the main       *)
(* process, which owns the window, the tray, the quit-or-hide decision and *)
(* the worker process.                                                     *)
(*                                                                         *)
(* JavaScript values are encoded as follows.  An object is a record with   *)
(* exactly the fields the object has.  `null` in a slot that otherwise     *)
(* holds an object (device, media, lastMessage) is the record NullObj; in  *)
(* a slot that otherwise holds a string (address, isConnecting) it is the  *)
(* reserved string null, which is different from every string of the       *)
(* model, the empty string included.  A missing optional object field is   *)
(* the record Undefined.                                                   *)
(***************************************************************************)
EXTENDS Integers, Sequences, FiniteSets, TLC

VARIABLES
    socket,         \* WebSocketClient.socket.readyState
    timers,         \* number of pending reconnect timers (setTimeout)
    timerDelay,     \* delay of the pending reconnect timer, 0 when none
    instances,      \* WebSocket objects of the client that are not closed
    wire,           \* frames handed to socket.send, oldest first
    inflight,       \* payloads received on this.socket, not yet dispatched
    listeners,      \* WebSocketClient.listeners: event name -> callbacks
    calls,          \* what the probe callbacks recorded in the latest emission
    opens,          \* open events the probe callbacks were invoked for
    isDev,          \* is.dev of the main process
    platform,       \* process.platform
    app,            \* the application: starting, running or exited
    mainWindow,     \* main/index.ts mainWindow, and what its window shows
    tray,           \* main/index.ts tray
    isQuitting,     \* main/index.ts isQuitting
    firstMinimize,  \* main/index.ts firstMinimize
    activateHandler,\* app.on('activate', ...) has been registered
    quitRequested,  \* app.quit() is closing the windows
    closePending,   \* a close event of the window waits for its handler
    backendProcess, \* setupServer.ts backendProcess
    spawnCalls,     \* calls of child_process.spawn
    workers,        \* worker processes that were started
    kills,          \* taskkill commands issued
    execPending,    \* taskkill commands whose exec callback has not run
    killErrors,     \* 'taskkill failed' lines written by console.error
    notifications,  \* notifications shown
    log,            \* what the latest main-process handler did, in order
    lastMessage,    \* WebSocketProvider: useState lastMessage
    effectPending,  \* the lastMessage effect of RouteComponent is scheduled
    isScanning,     \* RouteComponent: useState isScanning
    isConnecting,   \* RouteComponent: useState isConnecting
    device,         \* RouteComponent: useState device (the session)
    devices,        \* RouteComponent: useState devices (scan candidates)
    media,          \* RouteComponent: useState media (the snapshot)
    mediaHistory,   \* RouteComponent: useState mediaHistory
    bars,           \* AudioVisualizer: bar heights of the latest render, in percent
    stale           \* the clients that earlier runs of the provider's effect left behind

chan == <<socket, timers, wire>>
hub == <<timerDelay, instances, inflight, listeners, calls, opens>>
main == <<isDev, platform, app, mainWindow, tray, isQuitting, firstMinimize,
          activateHandler, quitRequested, closePending, backendProcess,
          spawnCalls, workers, kills, execPending, killErrors, notifications, log>>
ui == <<isScanning, isConnecting, device, devices, media, mediaHistory>>
view == <<bars>>
renderer == <<chan, hub, lastMessage, effectPending, ui, view, stale>>
vars == <<socket, timers, timerDelay, instances, wire, inflight, listeners, calls,
          opens, lastMessage, effectPending,
          isScanning, isConnecting, device, devices, media, mediaHistory, bars, stale,
          isDev, platform, app, mainWindow, tray, isQuitting, firstMinimize,
          activateHandler, quitRequested, closePending, backendProcess,
          spawnCalls, workers, kills, execPending, killErrors, notifications, log>>

-----------------------------------------------------------------------------
(* Bounds of the model *)

MaxDevices == 1     \* longest candidate list of a ble-scan-result
MaxWire == 1        \* frames transmitted in one run
MaxListeners == 3   \* calls of on() in one run
MaxInflight == 2    \* payloads received and not yet dispatched
MaxOpens == 2       \* open events the probe callbacks count up to
MaxKills == 2       \* taskkill commands after which no further quit is requested

(* Program constants *)

HistoryCap == 20    \* .slice(0, 20)
reconnectDelay == 2000

-----------------------------------------------------------------------------
(* JavaScript values *)

null == "<null>"
NullObj == [null |-> TRUE]
Undefined == [undefined |-> TRUE]

\* m.f of an object m: the field, or undefined when m has no such field
Get(m, f) == IF f \in DOMAIN m THEN m[f] ELSE Undefined

\* m.f === v for a string v: an object without the field has m.f undefined
Is(m, f, v) == f \in DOMAIN m /\ m[f] = v

\* !v for v a string or null
FalsyStr(v) == v = null \/ v = ""

Min(a, b) == IF a < b THEN a ELSE b

\* s.slice(0, n)
Slice(s, n) == SubSeq(s, 1, Min(Len(s), n))

-----------------------------------------------------------------------------
(* Inbound messages of the worker, as the objects JSON.parse yields *)

PetOne == [name |-> "Pet-01", address |-> "AA:BB"]
PetTwo == [name |-> "Pet-02", address |-> "CC:DD", rssi |-> "-60"]
DeviceUniverse == {PetOne, PetTwo}

RECURSIVE SeqsUpTo(_, _)
SeqsUpTo(S, n) ==
    IF n = 0 THEN {<<>>}
    ELSE LET shorter == SeqsUpTo(S, n - 1)
         IN  shorter \cup {Append(q, x) : q \in shorter, x \in S}

ScanResult(list) == [event |-> "ble-scan-result", data |-> list]
StatusResult(c, n, a) ==
    [event |-> "ble-status-result", connected |-> c, name |-> n, address |-> a]
ConnectResult(c, n, a) ==
    [event |-> "ble-connect-result", connected |-> c, name |-> n, address |-> a]
DisconnectResult == [event |-> "ble-disconnect-result"]

Amplitude == [amplitude |-> 500, peak |-> 1200, rms |-> 300]  \* thousandths

Media(t, a, st, p) ==
    [type |-> "media", title |-> t, artist |-> a, status |-> st, is_playing |-> p]
MediaAmp(t, a, st, p, amp) ==
    [type |-> "media", title |-> t, artist |-> a, status |-> st, is_playing |-> p,
     audio_amplitude |-> amp]

SessionNames == {"Pet-01", "Unknown"}
SessionAddresses == {null, "", "AA:BB"}

ScanMsgs == {ScanResult(l) : l \in SeqsUpTo(DeviceUniverse, MaxDevices)}
StatusMsgs ==
    {StatusResult(c, n, a) : c \in BOOLEAN, n \in SessionNames, a \in SessionAddresses}
ConnectMsgs ==
    {ConnectResult(c, n, a) : c \in BOOLEAN, n \in {"Pet-01"}, a \in {null, "AA:BB"}}
BleMsgs == ScanMsgs \cup StatusMsgs \cup ConnectMsgs \cup {DisconnectResult}

Titles == {"", "Unknown", "Song A", "Song B"}
Artists == {"Artist X", "Artist Y"}

\* the media events of the history runs: every (title, artist) pair while
\* playing, one of them again while paused, and the oldest pre-recorded entry
MediaMsgs ==
    {MediaAmp(t, a, "playing", TRUE, Amplitude) : t \in Titles, a \in Artists}
    \cup {Media("Song A", "Artist X", "paused", FALSE),
          Media("Track 1", "Band 1", "playing", TRUE)}

\* the media events of the connection runs
FewMediaMsgs == {MediaAmp("Song A", "Artist X", "playing", TRUE, Amplitude)}

(* Payloads on the socket: a text that is the JSON encoding of a value, or a
   text that is no JSON at all *)
Encode(v) == [json |-> v]
Raw(text) == [text |-> text]

\* JSON.stringify(data)
Stringify(data) == Encode(data)

\* JSON.parse(msg.data): the value, or a thrown SyntaxError
JSONParse(p) ==
    IF "json" \in DOMAIN p THEN [ok |-> TRUE, value |-> p.json] ELSE [ok |-> FALSE]

\* what onmessage hands to the subscribers for payload p
DataOf(p) == IF "json" \in DOMAIN p THEN p.json ELSE [string |-> p.text]

BlePayloads ==
    {Encode(m) : m \in BleMsgs \cup FewMediaMsgs} \cup {Encode(NullObj), Raw("pong")}
MediaPayloads == {Encode(m) : m \in MediaMsgs}

-----------------------------------------------------------------------------
(* RouteComponent: the lastMessage effect.  Each branch maps the component
   state s (a record of the six useState values) to the state after it. *)

UiState ==
    [isScanning |-> isScanning, isConnecting |-> isConnecting, device |-> device,
     devices |-> devices, media |-> media, mediaHistory |-> mediaHistory]

\* the scan branch merging the payload into the list
ScanResultBranch_Merge(s, msg) ==
    IF Is(msg, "event", "ble-scan-result")
    THEN [s EXCEPT !.isScanning = FALSE, !.devices = s.devices \o msg.data]
    ELSE s

\* if (lastMessage.event === 'ble-scan-result')
ScanResultBranch(s, msg) ==
    IF Is(msg, "event", "ble-scan-result")
    THEN [s EXCEPT !.isScanning = FALSE, !.devices = msg.data]
    ELSE s

\* if (lastMessage.event === 'ble-status-result')
StatusResultBranch(s, msg) ==
    IF Is(msg, "event", "ble-status-result")
    THEN [s EXCEPT !.device = [connected |-> msg.connected, name |-> msg.name,
                               address |-> msg.address]]
    ELSE s

\* the connect branch without setIsConnecting(null)
ConnectResultBranch_KeepsConnecting(s, msg) ==
    IF Is(msg, "event", "ble-connect-result")
    THEN [s EXCEPT !.device = [connected |-> msg.connected, name |-> msg.name,
                               address |-> msg.address]]
    ELSE s

\* the connect branch losing the address
ConnectResultBranch_NoAddress(s, msg) ==
    IF Is(msg, "event", "ble-connect-result")
    THEN [s EXCEPT !.isConnecting = null,
                   !.device = [connected |-> msg.connected, name |-> msg.name,
                               address |-> null]]
    ELSE s

\* if (lastMessage.event === 'ble-connect-result')
ConnectResultBranch(s, msg) ==
    IF Is(msg, "event", "ble-connect-result")
    THEN [s EXCEPT !.isConnecting = null,
                   !.device = [connected |-> msg.connected, name |-> msg.name,
                               address |-> msg.address]]
    ELSE s

\* the disconnect branch with setDevice(null)
DisconnectResultBranch_Null(s, msg) ==
    IF Is(msg, "event", "ble-disconnect-result")
    THEN [s EXCEPT !.device = NullObj]
    ELSE s

\* if (lastMessage.event === 'ble-disconnect-result')
DisconnectResultBranch(s, msg) ==
    IF Is(msg, "event", "ble-disconnect-result")
    THEN [s EXCEPT !.device = [connected |-> FALSE, name |-> "Unknown",
                               address |-> null]]
    ELSE s

\* const newMedia: MediaPayload = {...}
NewMedia(msg) ==
    [title |-> msg.title, artist |-> msg.artist, status |-> msg.status,
     is_playing |-> msg.is_playing, audio_amplitude |-> Get(msg, "audio_amplitude")]

\* prev.some((item) => item.title === newMedia.title && item.artist === newMedia.artist)
Exists(prev, newMedia) ==
    \E i \in 1..Len(prev) :
        prev[i].title = newMedia.title /\ prev[i].artist = newMedia.artist

\* the updater without the title test
MediaHistoryUpdater_NoTitleTest(prev, newMedia) ==
    IF Exists(prev, newMedia) THEN prev
    ELSE Slice(<<[title |-> newMedia.title, artist |-> newMedia.artist]>> \o prev,
               HistoryCap)

\* the updater pushing the new entry at the tail
MediaHistoryUpdater_Push(prev, newMedia) ==
    IF newMedia.title = "Unknown" \/ newMedia.title = "" THEN prev
    ELSE IF Exists(prev, newMedia) THEN prev
    ELSE Slice(prev \o <<[title |-> newMedia.title, artist |-> newMedia.artist]>>,
               HistoryCap)

\* the updater comparing with the head entry only
MediaHistoryUpdater_HeadOnly(prev, newMedia) ==
    IF newMedia.title = "Unknown" \/ newMedia.title = "" THEN prev
    ELSE IF Len(prev) > 0 /\ Exists(<<prev[1]>>, newMedia) THEN prev
    ELSE Slice(<<[title |-> newMedia.title, artist |-> newMedia.artist]>> \o prev,
               HistoryCap)

\* the updater passed to setMediaHistory
MediaHistoryUpdater(prev, newMedia) ==
    IF newMedia.title = "Unknown" \/ newMedia.title = "" THEN prev
    ELSE IF Exists(prev, newMedia) THEN prev
    ELSE Slice(<<[title |-> newMedia.title, artist |-> newMedia.artist]>> \o prev,
               HistoryCap)

\* the media branch also ending the scan
MediaBranch_StopsScan(s, msg) ==
    IF Is(msg, "type", "media")
    THEN [s EXCEPT !.isScanning = FALSE,
                   !.media = NewMedia(msg),
                   !.mediaHistory = MediaHistoryUpdater(s.mediaHistory, NewMedia(msg))]
    ELSE s

\* if (lastMessage.type === 'media')
MediaBranch(s, msg) ==
    IF Is(msg, "type", "media")
    THEN [s EXCEPT !.media = NewMedia(msg),
                   !.mediaHistory = MediaHistoryUpdater(s.mediaHistory, NewMedia(msg))]
    ELSE s

\* the body of the effect: if (!lastMessage) return, then the five branches
Effect(s, msg) ==
    IF msg = NullObj \/ msg = [string |-> ""] THEN s
    ELSE MediaBranch(
           DisconnectResultBranch(
             ConnectResultBranch(
               StatusResultBranch(
                 ScanResultBranch(s, msg), msg), msg), msg), msg)

\* React runs the effect after a render in which lastMessage changed
RunEffect ==
    /\ effectPending
    /\ effectPending' = FALSE
    /\ LET t == Effect(UiState, lastMessage)
       IN  /\ isScanning' = t.isScanning
           /\ isConnecting' = t.isConnecting
           /\ device' = t.device
           /\ devices' = t.devices
           /\ media' = t.media
           /\ mediaHistory' = t.mediaHistory
    /\ UNCHANGED <<chan, hub, lastMessage>>
    /\ UNCHANGED <<main, view, stale>>

-----------------------------------------------------------------------------
(* RouteComponent: what is rendered *)

\* {device && device.address && (...)}
ConnectedCard(d) == d # NullObj /\ ~FalsyStr(d.address)

\* the condition without the name test
ScanSurface_NoName(d) ==
    \/ d = NullObj
    \/ d # NullObj /\ ~d.connected /\ FalsyStr(d.address)

\* {(!device || (device && !device.connected && device.name === 'Unknown'
\*    && !device.address)) && (...)}
ScanSurface(d) ==
    \/ d = NullObj
    \/ d # NullObj /\ ~d.connected /\ d.name = "Unknown" /\ FalsyStr(d.address)

-----------------------------------------------------------------------------
(* WebSocketClient and the WebSocketProvider that subscribes to it *)

\* the local event names of on()
EventNames == {"open", "message", "close"}

\* the provider's message callback, and callbacks that record their invocations
ProviderCallback == "setLastMessage"
Probes == {"probe 1", "probe 2"}

\* callbacks that record their invocation and then throw: one whenever it is
\* handed a parsed value, one whatever it is handed
Throwers == {"probe throws on parsed", "probe throws"}
Recorders == Probes \cup Throwers
Throws(cb, data) ==
    \/ cb = "probe throws"
    \/ cb = "probe throws on parsed" /\ "string" \notin DOMAIN data

\* client.on("message", (msg) => { setLastMessage(msg) }): a value that is
\* Object.is-equal to the current state schedules nothing; a parsed object is
\* always a new object
SetLastMessage(msg) ==
    /\ lastMessage' = msg
    /\ effectPending' =
         IF msg = lastMessage /\ (msg = NullObj \/ "string" \in DOMAIN msg)
         THEN effectPending
         ELSE TRUE

\* connect() starting with an empty registry
connect_NewRegistry ==
    /\ socket' = "CONNECTING"
    /\ instances' = instances + 1
    /\ inflight' = <<>>
    /\ listeners' = <<>>

\* connect() taking over the message events of the socket before
connect_KeepsStream ==
    /\ socket' = "CONNECTING"
    /\ instances' = instances + 1
    /\ inflight' = inflight
    /\ listeners' = listeners

\* connect(): this.socket = new WebSocket(this.url), a new connection with
\* handlers of its own and nothing received yet
connect ==
    /\ socket' = "CONNECTING"
    /\ instances' = instances + 1
    /\ inflight' = <<>>
    /\ listeners' = listeners

\* send without the readyState test
send_Unchecked(data) ==
    /\ wire' = Append(wire, Stringify(data))
    /\ UNCHANGED <<socket, timers>>

\* send(data): dropped unless the socket is open
send(data) ==
    /\ IF socket # "OPEN"
       THEN wire' = wire
       ELSE wire' = Append(wire, Stringify(data))
    /\ UNCHANGED <<socket, timers>>

\* on(event, callback)
on(event, callback) ==
    listeners' =
        IF event \notin DOMAIN listeners
        THEN listeners @@ (event :> <<callback>>)
        ELSE [listeners EXCEPT ![event] = Append(@, callback)]

\* this.listeners.get(event), as the list forEach walks
Callbacks(event) == IF event \in DOMAIN listeners THEN listeners[event] ELSE <<>>

\* the record a probe callback keeps of one invocation
Invocation(cb, event, data) == [callback |-> cb, event |-> event, data |-> data]

\* emitLocal walking the callbacks from the last registered to the first
emitLocal_Reversed(event, data) ==
    LET cbs == Callbacks(event)
        probed == SelectSeq(cbs, LAMBDA cb : cb \in Probes)
    IN  /\ calls' = [i \in 1..Len(probed) |->
                        Invocation(probed[Len(probed) + 1 - i], event, data)]
        /\ opens' = IF event = "open" /\ Len(probed) > 0
                    THEN Min(opens + 1, MaxOpens)
                    ELSE opens
        /\ IF \E i \in 1..Len(cbs) : cbs[i] = ProviderCallback
           THEN SetLastMessage(data)
           ELSE UNCHANGED <<lastMessage, effectPending>>

\* some callback of the event throws when handed the data
Aborted(event, data) ==
    \E i \in 1..Len(Callbacks(event)) : Throws(Callbacks(event)[i], data)

\* the callbacks forEach invokes: all of them, or those up to the first that
\* throws, whose exception ends the walk
Walked(event, data) ==
    LET cbs == Callbacks(event)
        T == {i \in 1..Len(cbs) : Throws(cbs[i], data)}
    IN  IF T = {} THEN cbs
        ELSE SubSeq(cbs, 1, CHOOSE i \in T : \A j \in T : i <= j)

\* what the recording callbacks among cbs note when invoked in this order
Recorded(cbs, event, data) ==
    LET probed == SelectSeq(cbs, LAMBDA cb : cb \in Recorders)
    IN  [i \in 1..Len(probed) |-> Invocation(probed[i], event, data)]

\* emitLocal(event, data): callbacks.forEach((cb) => cb(data))
emitLocal(event, data) ==
    LET cbs == Walked(event, data)
        probed == SelectSeq(cbs, LAMBDA cb : cb \in Recorders)
    IN  /\ calls' = [i \in 1..Len(probed) |-> Invocation(probed[i], event, data)]
        /\ opens' = IF event = "open" /\ Len(probed) > 0
                    THEN Min(opens + 1, MaxOpens)
                    ELSE opens
        /\ IF \E i \in 1..Len(cbs) : cbs[i] = ProviderCallback
           THEN SetLastMessage(data)
           ELSE UNCHANGED <<lastMessage, effectPending>>

\* socket.onopen: emitLocal("open", null)
SocketOpen ==
    /\ socket = "CONNECTING"
    /\ socket' = "OPEN"
    /\ emitLocal("open", NullObj)
    /\ UNCHANGED <<timers, timerDelay, instances, wire, inflight, listeners, ui>>
    /\ UNCHANGED <<main, view, stale>>

\* onclose scheduling a reconnect only for a connection that had been open
SocketClose_GivesUp ==
    /\ socket \in {"CONNECTING", "OPEN"}
    /\ socket' = "CLOSED"
    /\ instances' = instances - 1
    /\ emitLocal("close", NullObj)
    /\ timers' = IF socket = "OPEN" THEN timers + 1 ELSE timers
    /\ timerDelay' = IF socket = "OPEN" THEN reconnectDelay ELSE timerDelay
    /\ UNCHANGED <<wire, inflight, listeners, ui>>
    /\ UNCHANGED <<main, view, stale>>

\* socket.onclose, of a socket that was open or never got open:
\* emitLocal("close", null); setTimeout(() => this.connect(), this.reconnectDelay)
SocketClose ==
    /\ socket \in {"CONNECTING", "OPEN"}
    /\ socket' = "CLOSED"
    /\ instances' = instances - 1
    /\ emitLocal("close", NullObj)
    /\ timers' = timers + 1
    /\ timerDelay' = reconnectDelay
    /\ UNCHANGED <<wire, inflight, listeners, ui>>
    /\ UNCHANGED <<main, view, stale>>

\* a timer that stays armed after it fired, as setInterval would
ReconnectTimer_Interval ==
    /\ timers > 0
    /\ timers' = timers
    /\ timerDelay' = timerDelay
    /\ connect
    /\ UNCHANGED <<wire, calls, opens, lastMessage, effectPending, ui>>
    /\ UNCHANGED <<main, view, stale>>

\* the reconnect timer fires: this.connect()
ReconnectTimer ==
    /\ timers > 0
    /\ timers' = timers - 1
    /\ timerDelay' = IF timers = 1 THEN 0 ELSE timerDelay
    /\ connect
    /\ UNCHANGED <<wire, calls, opens, lastMessage, effectPending, ui>>
    /\ UNCHANGED <<main, view, stale>>

\* onmessage with a catch that drops the payload
SocketMessage_DropsRaw(p) ==
    /\ socket = "OPEN"
    /\ LET r == JSONParse(p)
       IN  IF r.ok THEN emitLocal("message", r.value)
           ELSE UNCHANGED <<calls, opens, lastMessage, effectPending>>
    /\ UNCHANGED <<chan, timerDelay, instances, listeners, ui>>
    /\ UNCHANGED <<main, view, stale>>

\* msg.data, the payload as the string it is: the text of the JSON encoding
\* of a value is kept as that value marked as a string
RawData(p) ==
    IF "text" \in DOMAIN p THEN [string |-> p.text]
    ELSE [string |-> "JSON text", json |-> p.json]

\* the try block left by an exception of a callback: emitLocal("message", data)
\* as far as it got, then the catch block's emitLocal("message", msg.data)
Redeliver(data, raw) ==
    LET first == Walked("message", data)
        second == Walked("message", raw)
        In(cbs) == \E i \in 1..Len(cbs) : cbs[i] = ProviderCallback
    IN  /\ calls' = Recorded(first, "message", data) \o Recorded(second, "message", raw)
        /\ opens' = opens
        /\ IF In(first) THEN lastMessage' = raw /\ effectPending' = TRUE
           ELSE IF In(second) THEN SetLastMessage(raw)
           ELSE UNCHANGED <<lastMessage, effectPending>>

\* socket.onmessage: try { parse; emitLocal("message", data) } catch
\* { emitLocal("message", msg.data) }: the catch block runs on a parse error
\* and on an exception of a callback
SocketMessage(p) ==
    /\ socket = "OPEN"
    /\ LET r == JSONParse(p)
       IN  IF r.ok
           THEN IF Aborted("message", r.value)
                THEN Redeliver(r.value, RawData(p))
                ELSE emitLocal("message", r.value)
           ELSE emitLocal("message", [string |-> p.text])
    /\ UNCHANGED <<chan, timerDelay, instances, listeners, ui>>
    /\ UNCHANGED <<main, view, stale>>

\* a payload arrives and is dispatched at once
Receive(p) == SocketMessage(p) /\ UNCHANGED inflight

-----------------------------------------------------------------------------
(* RouteComponent: the handlers of the user's clicks *)

handleScanButton ==
    /\ isScanning' = TRUE
    /\ send([event |-> "ble-scan"])
    /\ UNCHANGED <<isConnecting, device, devices, media, mediaHistory>>

handleConnectButton(item) ==
    /\ isConnecting' = item.address
    /\ send([event |-> "ble-connect", address |-> item.address])
    /\ UNCHANGED <<isScanning, device, devices, media, mediaHistory>>

\* the disconnect handler resetting the session at once
handleDisconnectButton_Optimistic ==
    /\ send([event |-> "ble-disconnect"])
    /\ device' = [connected |-> FALSE, name |-> "Unknown", address |-> null]
    /\ UNCHANGED <<isScanning, isConnecting, devices, media, mediaHistory>>

handleDisconnectButton ==
    /\ send([event |-> "ble-disconnect"])
    /\ UNCHANGED ui

\* a run transmits at most MaxWire frames
CanSend == socket = "OPEN" => Len(wire) < MaxWire

\* the SCAN button, rendered on the scan surface, disabled while scanning
ClickScan ==
    /\ ScanSurface(device)
    /\ ~isScanning
    /\ CanSend
    /\ handleScanButton
    /\ UNCHANGED <<hub, lastMessage, effectPending>>
    /\ UNCHANGED <<main, view, stale>>

\* a row of the candidate list calling the handler whatever isConnecting is
ClickDevice_Unguarded(i) ==
    /\ ScanSurface(device)
    /\ i \in 1..Len(devices)
    /\ CanSend
    /\ handleConnectButton(devices[i])
    /\ UNCHANGED <<hub, lastMessage, effectPending>>
    /\ UNCHANGED <<main, view, stale>>

\* a row of the candidate list: if (isConnecting) return; handleConnectButton(item)
ClickDevice(i) ==
    /\ ScanSurface(device)
    /\ i \in 1..Len(devices)
    /\ CanSend \/ ~FalsyStr(isConnecting)
    /\ IF ~FalsyStr(isConnecting)
       THEN UNCHANGED <<chan, ui>>
       ELSE handleConnectButton(devices[i])
    /\ UNCHANGED <<hub, lastMessage, effectPending>>
    /\ UNCHANGED <<main, view, stale>>

\* the unlink button of the connected-device card
ClickDisconnect ==
    /\ ConnectedCard(device)
    /\ CanSend
    /\ handleDisconnectButton
    /\ UNCHANGED <<hub, lastMessage, effectPending>>
    /\ UNCHANGED <<main, view, stale>>

-----------------------------------------------------------------------------
(* The main process: main/index.ts and lib/setupServer.ts.  A handler maps the
   main-process state m (a record of the main variables, with the steps the
   handler has made so far and whether it has thrown) to the state after it. *)

Platforms == {"win32", "darwin", "linux"}

\* child_process.spawn: a process is started; or a ChildProcess without a
\* process comes back and reports its error later; or the call throws
SpawnOutcomes == {"started", "failed", "throws"}

MainState ==
    [isDev |-> isDev, platform |-> platform, app |-> app, mainWindow |-> mainWindow,
     tray |-> tray, isQuitting |-> isQuitting, firstMinimize |-> firstMinimize,
     activateHandler |-> activateHandler, quitRequested |-> quitRequested,
     closePending |-> closePending, backendProcess |-> backendProcess,
     spawnCalls |-> spawnCalls, workers |-> workers, kills |-> kills,
     execPending |-> execPending, killErrors |-> killErrors,
     notifications |-> notifications, log |-> <<>>, thrown |-> FALSE]

SetMain(t) ==
    /\ isDev' = t.isDev
    /\ platform' = t.platform
    /\ app' = t.app
    /\ mainWindow' = t.mainWindow
    /\ tray' = t.tray
    /\ isQuitting' = t.isQuitting
    /\ firstMinimize' = t.firstMinimize
    /\ activateHandler' = t.activateHandler
    /\ quitRequested' = t.quitRequested
    /\ closePending' = t.closePending
    /\ backendProcess' = t.backendProcess
    /\ spawnCalls' = t.spawnCalls
    /\ workers' = t.workers
    /\ kills' = t.kills
    /\ execPending' = t.execPending
    /\ killErrors' = t.killErrors
    /\ notifications' = t.notifications
    /\ log' = t.log

\* the handler has made one more step
Did(m, step) == [m EXCEPT !.log = Append(@, step)]

\* the state a handler of the named event starts from
Handling(event) == Did(MainState, event)

\* BrowserWindow.getAllWindows().length
Windows(m) == IF m.mainWindow \in {"loading", "shown", "hidden"} THEN 1 ELSE 0

\* startBackend without the test of is.dev
startBackend_InDev(m, outcome) ==
    IF m.backendProcess # null THEN m
    ELSE LET c == [Did(m, "spawn") EXCEPT !.spawnCalls = @ + 1]
         IN  CASE outcome = "started" ->
                    [c EXCEPT !.backendProcess = "child", !.workers = @ + 1]
               [] outcome = "failed" ->
                    [c EXCEPT !.backendProcess = "child without pid"]
               [] OTHER -> [c EXCEPT !.thrown = TRUE]

\* startBackend(): if (is.dev) return; if (backendProcess) return;
\* backendProcess = spawn(exePath, ...)
startBackend(m, outcome) ==
    IF m.isDev THEN m
    ELSE IF m.backendProcess # null THEN m
    ELSE LET c == [Did(m, "spawn") EXCEPT !.spawnCalls = @ + 1]
         IN  CASE outcome = "started" ->
                    [c EXCEPT !.backendProcess = "child", !.workers = @ + 1]
               [] outcome = "failed" ->
                    [c EXCEPT !.backendProcess = "child without pid"]
               [] OTHER -> [c EXCEPT !.thrown = TRUE]

\* createWindow(): startBackend(); mainWindow = new BrowserWindow({show: false, ...})
createWindow(m, outcome) ==
    LET b == startBackend(m, outcome)
    IN  IF b.thrown THEN b
        ELSE [Did(b, "new BrowserWindow") EXCEPT !.mainWindow = "loading"]

\* createTray running although createWindow has thrown, the error caught
createTray_AfterThrow(m) ==
    IF m.tray # null THEN m
    ELSE [Did(m, "new Tray") EXCEPT !.tray = "tray", !.thrown = FALSE]

\* createTray(): if (tray) return; tray = new Tray(...)
createTray(m) ==
    IF m.thrown \/ m.tray # null THEN m
    ELSE [Did(m, "new Tray") EXCEPT !.tray = "tray"]

\* showing the window taking the application out of quitting
show_ResetsQuitting(m) ==
    IF m.thrown \/ m.mainWindow = null THEN m
    ELSE IF m.mainWindow = "destroyed" THEN [m EXCEPT !.thrown = TRUE]
    ELSE [Did(m, "show") EXCEPT !.mainWindow = "shown", !.isQuitting = FALSE]

\* mainWindow?.show(); a destroyed BrowserWindow throws
show(m) ==
    IF m.thrown \/ m.mainWindow = null THEN m
    ELSE IF m.mainWindow = "destroyed" THEN [m EXCEPT !.thrown = TRUE]
    ELSE [Did(m, "show") EXCEPT !.mainWindow = "shown"]

\* app.on('before-quit'): taskkill of the worker, on Windows
beforeQuit(m) ==
    IF m.backendProcess # null /\ m.platform = "win32"
    THEN [Did(m, "taskkill") EXCEPT !.kills = @ + 1, !.execPending = @ + 1]
    ELSE m

\* app.quit() of Electron: nothing while a quit is under way; else before-quit
\* is emitted and the windows are asked to close, or with no window the
\* application exits
quit(m) ==
    IF m.quitRequested THEN m
    ELSE LET b == [beforeQuit(Did(m, "before-quit")) EXCEPT !.quitRequested = TRUE]
         IN  IF Windows(b) = 0
             THEN [Did(b, "exit") EXCEPT !.app = "exited"]
             ELSE [b EXCEPT !.closePending = TRUE]

\* app.whenReady().then(...): createWindow(); createTray(); app.on('activate', ...)
WhenReady(outcome) ==
    /\ app = "starting"
    /\ LET t == createTray(createWindow(Handling("ready"), outcome))
           r == IF t.thrown THEN t ELSE [t EXCEPT !.activateHandler = TRUE]
       IN  SetMain([r EXCEPT !.app = "running"])
    /\ UNCHANGED renderer

\* mainWindow.on('ready-to-show'): mainWindow?.show()
ReadyToShow ==
    /\ app = "running"
    /\ mainWindow = "loading"
    /\ SetMain(show(Handling("ready-to-show")))
    /\ UNCHANGED renderer

\* the show handlers creating a window whether one exists or not
showApp_AlwaysCreates(m, outcome) ==
    show(createWindow(m, outcome))

\* 'Show App' and double-click: if (!mainWindow) createWindow(); mainWindow?.show()
showApp(m, outcome) ==
    show(IF m.mainWindow = null THEN createWindow(m, outcome) ELSE m)

TrayShowApp(outcome) ==
    /\ app = "running"
    /\ tray = "tray"
    /\ SetMain(showApp(Handling("Show App"), outcome))
    /\ UNCHANGED renderer

TrayDoubleClick(outcome) ==
    /\ app = "running"
    /\ tray = "tray"
    /\ SetMain(showApp(Handling("double-click"), outcome))
    /\ UNCHANGED renderer

\* the activate handler without the test of the open windows
Activate_AlwaysCreates(outcome) ==
    /\ app = "running"
    /\ activateHandler
    /\ platform = "darwin"
    /\ SetMain(createWindow(Handling("activate"), outcome))
    /\ UNCHANGED renderer

\* app.on('activate'), an event of macOS:
\* if (BrowserWindow.getAllWindows().length === 0) createWindow()
Activate(outcome) ==
    /\ app = "running"
    /\ activateHandler
    /\ platform = "darwin"
    /\ SetMain(IF Windows(MainState) = 0
               THEN createWindow(Handling("activate"), outcome)
               ELSE Handling("activate"))
    /\ UNCHANGED renderer

\* 'Exit' calling app.quit() before it sets isQuitting and destroys the tray
TrayExit_QuitFirst ==
    /\ app = "running"
    /\ tray = "tray"
    /\ LET q == quit(Did(Handling("Exit"), "app.quit"))
           a == Did([q EXCEPT !.isQuitting = TRUE], "isQuitting = true")
       IN  SetMain(Did([a EXCEPT !.tray = "destroyed"], "tray.destroy"))
    /\ UNCHANGED renderer

\* 'Exit': isQuitting = true; tray?.destroy(); app.quit()
TrayExit ==
    /\ app = "running"
    /\ tray = "tray"
    /\ LET a == Did([Handling("Exit") EXCEPT !.isQuitting = TRUE], "isQuitting = true")
           b == Did([a EXCEPT !.tray = "destroyed"], "tray.destroy")
       IN  SetMain(quit(Did(b, "app.quit")))
    /\ UNCHANGED renderer

\* a quit that does not come from the tray: the Quit item of the application
\* menu or of the dock, its keyboard shortcut
QuitRequest ==
    /\ app = "running"
    /\ kills < MaxKills
    /\ SetMain(quit(Did(Handling("Quit"), "app.quit")))
    /\ UNCHANGED renderer

\* ipcMain.on('window:close'): BrowserWindow.fromWebContents(e.sender)?.close(),
\* and the close requests of the window manager
UserClose ==
    /\ app = "running"
    /\ mainWindow = "shown"
    /\ ~closePending
    /\ SetMain([Did(Handling("window:close"), "close") EXCEPT !.closePending = TRUE])
    /\ UNCHANGED renderer

\* the close handler hiding the window without e.preventDefault()
onClose_NoPrevent(m) ==
    LET d == [Did(Did(m, "hide"), "closed") EXCEPT !.mainWindow = "destroyed",
                                                  !.closePending = FALSE]
        n == IF ~m.isQuitting /\ m.firstMinimize
             THEN [Did(d, "notification") EXCEPT !.notifications = @ + 1,
                                                 !.firstMinimize = FALSE]
             ELSE d
    IN  IF n.quitRequested
        THEN [Did(n, "exit") EXCEPT !.app = "exited"]
        ELSE quit(n)

\* the close handler without firstMinimize = false
onClose_Renotifies(m) ==
    IF ~m.isQuitting
    THEN LET h == [Did(Did(m, "preventDefault"), "hide") EXCEPT
                     !.mainWindow = IF @ = "loading" THEN "loading" ELSE "hidden",
                     !.closePending = FALSE,
                     !.quitRequested = FALSE]
         IN  IF h.firstMinimize
             THEN [Did(h, "notification") EXCEPT !.notifications = @ + 1]
             ELSE h
    ELSE LET d == [Did(m, "closed") EXCEPT !.mainWindow = "destroyed",
                                           !.closePending = FALSE]
         IN  IF d.quitRequested
             THEN [Did(d, "exit") EXCEPT !.app = "exited"]
             ELSE quit(d)

\* mainWindow.on('close'): a close that is not prevented destroys the window,
\* and with the last window gone the application exits; a prevented close
\* calls off the quit that asked for it
onClose(m) ==
    IF ~m.isQuitting
    THEN LET h == [Did(Did(m, "preventDefault"), "hide") EXCEPT
                     !.mainWindow = IF @ = "loading" THEN "loading" ELSE "hidden",
                     !.closePending = FALSE,
                     !.quitRequested = FALSE]
         IN  IF h.firstMinimize
             THEN [Did(h, "notification") EXCEPT !.notifications = @ + 1,
                                                 !.firstMinimize = FALSE]
             ELSE h
    ELSE LET d == [Did(m, "closed") EXCEPT !.mainWindow = "destroyed",
                                           !.closePending = FALSE]
         IN  IF d.quitRequested
             THEN [Did(d, "exit") EXCEPT !.app = "exited"]
             ELSE quit(d)

WindowClose ==
    /\ app = "running"
    /\ closePending
    /\ SetMain(onClose(Handling("close")))
    /\ UNCHANGED renderer

\* the exec callback escalating the error: the quit under way is given up
execCallback_Escalates(m, err) ==
    LET c == [m EXCEPT !.execPending = @ - 1]
    IN  IF err
        THEN [Did(c, "throw") EXCEPT !.thrown = TRUE, !.quitRequested = FALSE,
                                     !.closePending = FALSE]
        ELSE c

\* (err) => { if (err) console.error('taskkill failed:', err) }
execCallback(m, err) ==
    LET c == [m EXCEPT !.execPending = @ - 1]
    IN  IF err
        THEN [Did(c, "console.error") EXCEPT !.killErrors = @ + 1]
        ELSE c

\* taskkill has ended, with an error or without, while the application runs
TaskkillDone(err) ==
    /\ app = "running"
    /\ execPending > 0
    /\ SetMain(execCallback(Handling("taskkill callback"), err))
    /\ UNCHANGED renderer

\* the main process of a packaged application on Windows, with its window
\* shown, the tray icon and the worker running
MainProcessUp ==
    /\ isDev = FALSE
    /\ platform = "win32"
    /\ app = "running"
    /\ mainWindow = "shown"
    /\ tray = "tray"
    /\ isQuitting = FALSE
    /\ firstMinimize = TRUE
    /\ activateHandler = TRUE
    /\ quitRequested = FALSE
    /\ closePending = FALSE
    /\ backendProcess = "child"
    /\ spawnCalls = 1
    /\ workers = 1
    /\ kills = 0
    /\ execPending = 0
    /\ killErrors = 0
    /\ notifications = 0
    /\ log = <<>>

-----------------------------------------------------------------------------
(* The connection runs: the provider and the route are mounted, the first
   socket is connecting *)

\* useEffect of the provider: new WebSocketClient(url), client.on("message", ...),
\* client.connect()
ProviderMounted ==
    /\ listeners = ("message" :> <<ProviderCallback>>)
    /\ instances = 1
    /\ timers = 0
    /\ timerDelay = 0
    /\ inflight = <<>>
    /\ calls = <<>>
    /\ opens = 0

Init ==
    /\ MainProcessUp
    /\ bars = <<>>
    /\ stale = <<>>
    /\ socket = "CONNECTING"
    /\ ProviderMounted
    /\ wire = <<>>
    /\ lastMessage = NullObj
    /\ effectPending = FALSE
    /\ isScanning = FALSE
    /\ isConnecting = null
    /\ device = NullObj
    /\ devices = <<>>
    /\ media = NullObj
    /\ mediaHistory = <<>>

Next ==
    \/ SocketOpen
    \/ SocketClose
    \/ ReconnectTimer
    \/ \E p \in BlePayloads : Receive(p)
    \/ RunEffect
    \/ ClickScan
    \/ \E i \in 1..MaxDevices : ClickDevice(i)
    \/ ClickDisconnect

Spec == Init /\ [][Next]_vars

-----------------------------------------------------------------------------
(* The history runs: the socket is open and the history already holds the
   entries of n earlier media events, Filler(1) the oldest *)

FillerTitles == <<"Track 1", "Track 2", "Track 3", "Track 4", "Track 5">>
FillerArtists == <<"Band 1", "Band 2", "Band 3", "Band 4">>
Filler(i) ==
    [title |-> FillerTitles[((i - 1) % 5) + 1],
     artist |-> FillerArtists[((i - 1) \div 5) + 1]]
FillerMsg(i) == Media(Filler(i).title, Filler(i).artist, "playing", TRUE)
Prefill(n) == [i \in 1..n |-> Filler(n - i + 1)]

InitMedia ==
    /\ MainProcessUp
    /\ bars = <<>>
    /\ stale = <<>>
    /\ socket = "OPEN"
    /\ ProviderMounted
    /\ wire = <<>>
    /\ effectPending = FALSE
    /\ isScanning = FALSE
    /\ isConnecting = null
    /\ device = NullObj
    /\ devices = <<>>
    /\ \E n \in {0, HistoryCap - 1, HistoryCap} :
         /\ mediaHistory = Prefill(n)
         /\ lastMessage = IF n = 0 THEN NullObj ELSE FillerMsg(n)
         /\ media = IF n = 0 THEN NullObj ELSE NewMedia(FillerMsg(n))

NextMedia ==
    \/ \E p \in MediaPayloads : Receive(p)
    \/ RunEffect

SpecMedia == InitMedia /\ [][NextMedia]_vars

-----------------------------------------------------------------------------
(* AudioVisualizer: three bars for amplitude, rms and peak.  Values are
   counted in thousandths, heights in percent. *)

\* v * 100, for v in thousandths
Times100(v) == (v * 100) \div 1000

\* a destructured prop with its default: { f = 0 }
Prop(props, f) == IF f \in DOMAIN props THEN props[f] ELSE 0

\* the heights of the three bars, in the order they are drawn
AudioVisualizer(props) ==
    LET h == <<Times100(Prop(props, "amplitude")),
               Times100(Prop(props, "rms")),
               Times100(Prop(props, "peak"))>>
    IN  [i \in 1..3 |-> Min(h[i], 100)]

\* the props of a render: each of the three is missing, negative, within
\* [0, 1] or above 1
AmplitudeValues == {-500, 250, 1000, 1500}
AmplitudeFields == {"amplitude", "rms", "peak"}
AmplitudeProps ==
    UNION {[D -> AmplitudeValues] : D \in SUBSET AmplitudeFields}

\* the component is rendered with props p
Render(p) ==
    /\ bars' = AudioVisualizer(p)
    /\ UNCHANGED <<chan, hub, lastMessage, effectPending, ui>>
    /\ UNCHANGED <<main, stale>>

(* The visualizer runs: media events with and without an audio_amplitude
   arrive on an open socket and the visualizer is rendered with any props *)

VisualizerPayloads ==
    {Encode(m) : m \in FewMediaMsgs \cup {Media("Song B", "Artist X", "playing", TRUE)}}

InitVisualizer ==
    /\ MainProcessUp
    /\ bars = <<>>
    /\ stale = <<>>
    /\ socket = "OPEN"
    /\ ProviderMounted
    /\ wire = <<>>
    /\ lastMessage = NullObj
    /\ effectPending = FALSE
    /\ isScanning = FALSE
    /\ isConnecting = null
    /\ device = NullObj
    /\ devices = <<>>
    /\ media = NullObj
    /\ mediaHistory = <<>>

NextVisualizer ==
    \/ \E p \in VisualizerPayloads : Receive(p)
    \/ RunEffect
    \/ \E p \in AmplitudeProps : Render(p)

SpecVisualizer == InitVisualizer /\ [][NextVisualizer]_vars

-----------------------------------------------------------------------------
(* The channel runs: a WebSocketClient on its own, connect() called once by
   its owner; probe callbacks subscribe at any time, the peer sends parseable
   and unparseable payloads, the connection closes and is reopened *)

ChannelPayloads == {Encode(DisconnectResult), Raw("pong"), Raw("{oops")}

\* the callbacks in the registry, over all names
Registered == Len(Callbacks("open")) + Len(Callbacks("message")) + Len(Callbacks("close"))

\* a caller subscribes: client.on(event, cb)
On(event, cb) ==
    /\ Registered < MaxListeners
    /\ on(event, cb)
    /\ UNCHANGED <<chan, timerDelay, instances, inflight, calls, opens,
                   lastMessage, effectPending, ui>>
    /\ UNCHANGED <<main, view, stale>>

\* the peer's next payload reaches the open socket; its message event is queued
Arrive(p) ==
    /\ socket = "OPEN"
    /\ Len(inflight) < MaxInflight
    /\ inflight' = Append(inflight, p)
    /\ UNCHANGED <<chan, timerDelay, instances, listeners, calls, opens,
                   lastMessage, effectPending, ui>>
    /\ UNCHANGED <<main, view, stale>>

\* the oldest queued message event of this.socket runs socket.onmessage
Dispatch ==
    /\ inflight # <<>>
    /\ SocketMessage(Head(inflight))
    /\ inflight' = Tail(inflight)

InitChannel ==
    /\ MainProcessUp
    /\ bars = <<>>
    /\ stale = <<>>
    /\ socket = "CONNECTING"
    /\ listeners = <<>>
    /\ instances = 1
    /\ timers = 0
    /\ timerDelay = 0
    /\ inflight = <<>>
    /\ calls = <<>>
    /\ opens = 0
    /\ wire = <<>>
    /\ lastMessage = NullObj
    /\ effectPending = FALSE
    /\ isScanning = FALSE
    /\ isConnecting = null
    /\ device = NullObj
    /\ devices = <<>>
    /\ media = NullObj
    /\ mediaHistory = <<>>

NextChannel ==
    \/ \E e \in EventNames, cb \in Probes : On(e, cb)
    \/ SocketOpen
    \/ \E p \in ChannelPayloads : Arrive(p)
    \/ Dispatch
    \/ SocketClose
    \/ ReconnectTimer

SpecChannel == InitChannel /\ [][NextChannel]_vars

\* setTimeout fires its callback once the delay has passed
SpecChannelFair == SpecChannel /\ WF_vars(ReconnectTimer)

-----------------------------------------------------------------------------
(* The throwing runs: an open connection with the provider subscribed, on
   which further message callbacks subscribe, some of which throw *)

InitThrow ==
    /\ MainProcessUp
    /\ bars = <<>>
    /\ stale = <<>>
    /\ socket = "OPEN"
    /\ ProviderMounted
    /\ wire = <<>>
    /\ lastMessage = NullObj
    /\ effectPending = FALSE
    /\ isScanning = FALSE
    /\ isConnecting = null
    /\ device = NullObj
    /\ devices = <<>>
    /\ media = NullObj
    /\ mediaHistory = <<>>

NextThrow ==
    \/ \E cb \in {"probe 1"} \cup Throwers : On("message", cb)
    \/ \E p \in ChannelPayloads : Arrive(p)
    \/ Dispatch

SpecThrow == InitThrow /\ [][NextThrow]_vars

-----------------------------------------------------------------------------
(* The mounting runs: the effect of WebSocketProvider runs again, for a new
   instance of the provider after an unmount or for the same instance; its
   cleanup does nothing, so the client of the run before lives on *)

MaxStale == 1       \* clients left behind in one run

MountKinds == {"remount", "re-run"}

\* useEffect(() => { client = new WebSocketClient(url); wsRef.current = client;
\* client.on("message", ...); client.connect(); return () => {} }, [url]).
\* A new instance of the provider starts from useState(null), and so does the
\* RouteComponent it renders.
ProviderEffect(kind) ==
    /\ Len(stale) < MaxStale
    /\ stale' = Append(stale, [socket |-> socket, timers |-> timers,
                               writes |-> kind = "re-run"])
    /\ socket' = "CONNECTING"
    /\ timers' = 0
    /\ timerDelay' = 0
    /\ instances' = 1
    /\ inflight' = <<>>
    /\ listeners' = ("message" :> <<ProviderCallback>>)
    /\ IF kind = "remount"
       THEN /\ lastMessage' = NullObj
            /\ effectPending' = FALSE
            /\ isScanning' = FALSE
            /\ isConnecting' = null
            /\ device' = NullObj
            /\ devices' = <<>>
            /\ media' = NullObj
            /\ mediaHistory' = <<>>
       ELSE UNCHANGED <<lastMessage, effectPending, ui>>
    /\ UNCHANGED <<wire, calls, opens>>
    /\ UNCHANGED <<main, view>>

\* a step of a client left behind changes nothing of the current client
StaleFrame ==
    /\ UNCHANGED <<chan, hub, ui>>
    /\ UNCHANGED <<main, view>>

\* socket.onopen of a client left behind: no callback is registered for open
StaleOpen(i) ==
    /\ i \in 1..Len(stale)
    /\ stale[i].socket = "CONNECTING"
    /\ stale' = [stale EXCEPT ![i].socket = "OPEN"]
    /\ UNCHANGED <<lastMessage, effectPending>>
    /\ StaleFrame

\* socket.onmessage of a client left behind: its callback is the setLastMessage
\* of the provider instance that created it
StaleMessage(i, p) ==
    /\ i \in 1..Len(stale)
    /\ stale[i].socket = "OPEN"
    /\ IF stale[i].writes THEN SetLastMessage(DataOf(p))
       ELSE UNCHANGED <<lastMessage, effectPending>>
    /\ UNCHANGED stale
    /\ StaleFrame

\* socket.onclose of a client left behind: setTimeout(() => this.connect(), 2000)
StaleClose(i) ==
    /\ i \in 1..Len(stale)
    /\ stale[i].socket \in {"CONNECTING", "OPEN"}
    /\ stale' = [stale EXCEPT ![i].socket = "CLOSED", ![i].timers = @ + 1]
    /\ UNCHANGED <<lastMessage, effectPending>>
    /\ StaleFrame

\* the reconnect timer of a client left behind fires: this.connect()
StaleTimer(i) ==
    /\ i \in 1..Len(stale)
    /\ stale[i].timers > 0
    /\ stale' = [stale EXCEPT ![i].socket = "CONNECTING", ![i].timers = @ - 1]
    /\ UNCHANGED <<lastMessage, effectPending>>
    /\ StaleFrame

\* the clients that keep connecting to the worker
Clients == 1 + Len(stale)

InitMount ==
    /\ MainProcessUp
    /\ bars = <<>>
    /\ stale = <<>>
    /\ socket = "CONNECTING"
    /\ ProviderMounted
    /\ wire = <<>>
    /\ lastMessage = NullObj
    /\ effectPending = FALSE
    /\ isScanning = FALSE
    /\ isConnecting = null
    /\ device = NullObj
    /\ devices = <<>>
    /\ media = NullObj
    /\ mediaHistory = <<>>

NextMount ==
    \/ \E kind \in MountKinds : ProviderEffect(kind)
    \/ SocketOpen
    \/ SocketClose
    \/ ReconnectTimer
    \/ \E p \in ChannelPayloads : Receive(p)
    \/ RunEffect
    \/ \E i \in 1..MaxStale : StaleOpen(i)
    \/ \E i \in 1..MaxStale, p \in ChannelPayloads : StaleMessage(i, p)
    \/ \E i \in 1..MaxStale : StaleClose(i)
    \/ \E i \in 1..MaxStale : StaleTimer(i)

SpecMount == InitMount /\ [][NextMount]_vars

-----------------------------------------------------------------------------
(* The main-process runs: the application starts, in development or packaged,
   on one of the platforms; the renderer is left aside *)

InitMain ==
    /\ bars = <<>>
    /\ stale = <<>>
    /\ isDev \in BOOLEAN
    /\ platform \in Platforms
    /\ app = "starting"
    /\ mainWindow = null
    /\ tray = null
    /\ isQuitting = FALSE
    /\ firstMinimize = TRUE
    /\ activateHandler = FALSE
    /\ quitRequested = FALSE
    /\ closePending = FALSE
    /\ backendProcess = null
    /\ spawnCalls = 0
    /\ workers = 0
    /\ kills = 0
    /\ execPending = 0
    /\ killErrors = 0
    /\ notifications = 0
    /\ log = <<>>
    /\ socket = "CLOSED"
    /\ ProviderMounted
    /\ wire = <<>>
    /\ lastMessage = NullObj
    /\ effectPending = FALSE
    /\ isScanning = FALSE
    /\ isConnecting = null
    /\ device = NullObj
    /\ devices = <<>>
    /\ media = NullObj
    /\ mediaHistory = <<>>

NextMain ==
    \/ \E o \in SpawnOutcomes : WhenReady(o)
    \/ ReadyToShow
    \/ \E o \in SpawnOutcomes : TrayShowApp(o)
    \/ \E o \in SpawnOutcomes : TrayDoubleClick(o)
    \/ \E o \in SpawnOutcomes : Activate(o)
    \/ UserClose
    \/ WindowClose
    \/ QuitRequest
    \/ TrayExit
    \/ \E err \in BOOLEAN : TaskkillDone(err)

SpecMain == InitMain /\ [][NextMain]_vars

\* a close event that is queued is handled
SpecMainFair == SpecMain /\ WF_vars(WindowClose)

-----------------------------------------------------------------------------
(* Media history *)

Entry(msg) == [title |-> msg.title, artist |-> msg.artist]

IsMedia(msg) == Is(msg, "type", "media")

HistoryInvariant ==
    /\ Len(mediaHistory) <= HistoryCap
    /\ \A i, j \in 1..Len(mediaHistory) :
         mediaHistory[i] = mediaHistory[j] => i = j
    /\ \A i \in 1..Len(mediaHistory) :
         /\ DOMAIN mediaHistory[i] = {"title", "artist"}
         /\ mediaHistory[i].title \notin {"", "Unknown"}

\* C1: at any time the history holds no two entries with the same (title,
\* artist), at most 20 entries and no entry titled "" or "Unknown"; running
\* the effect on a media event titled "" or "Unknown" leaves the history as
\* it was.
C1_HistoryInvariant ==
    /\ []HistoryInvariant
    /\ [][(RunEffect /\ IsMedia(lastMessage)
             /\ lastMessage.title \in {"", "Unknown"})
          => mediaHistory' = mediaHistory]_vars

\* a full history whose head was ingested in this run, after a media event
\* titled "Unknown" was processed
C1_Witness ==
    /\ ~effectPending
    /\ IsMedia(lastMessage) /\ lastMessage.title = "Unknown"
    /\ media.title = "Unknown"
    /\ Len(mediaHistory) = HistoryCap
    /\ mediaHistory[1].title = "Song B"

SongAX == MediaAmp("Song A", "Artist X", "playing", TRUE, Amplitude)
SongBY == MediaAmp("Song B", "Artist Y", "playing", TRUE, Amplitude)

\* a media event that the history rule records
Fresh(msg, h) ==
    /\ IsMedia(msg)
    /\ msg.title \notin {"", "Unknown"}
    /\ \A i \in 1..Len(h) : h[i] # Entry(msg)

\* C2: ingesting a media event with a recordable title and a (title, artist)
\* pair absent from the history yields the new entry at the head, then the
\* previous entries in their order, cut to the first 20; and the events
\* (Song A, Artist X), (Song A, Artist X), (Song B, Artist Y) ingested into
\* the empty history give [(Song B, Artist Y), (Song A, Artist X)].
C2_PrependAndTruncate ==
    /\ [][(RunEffect /\ Fresh(lastMessage, mediaHistory))
          => /\ Len(mediaHistory') = Min(Len(mediaHistory) + 1, HistoryCap)
             /\ mediaHistory'[1] = Entry(lastMessage)
             /\ \A i \in 2..Len(mediaHistory') :
                  mediaHistory'[i] = mediaHistory[i - 1]]_vars
    /\ [](MediaHistoryUpdater(
            MediaHistoryUpdater(
              MediaHistoryUpdater(<<>>, NewMedia(SongAX)), NewMedia(SongAX)),
            NewMedia(SongBY))
          = <<Entry(SongBY), Entry(SongAX)>>)

\* two events ingested into a full history: the two oldest entries are gone
C2_Witness ==
    /\ ~effectPending
    /\ Len(mediaHistory) = HistoryCap
    /\ mediaHistory[1] = Entry(SongBY)
    /\ mediaHistory[2] = Entry(SongAX)
    /\ mediaHistory[HistoryCap] = Filler(3)

\* C3: ingesting a media event whose (title, artist) pair is in the history
\* at any position leaves the history exactly as it was, and from every
\* history ingesting an event twice gives what ingesting it once gives.
C3_DedupIdempotent ==
    /\ [][(RunEffect /\ IsMedia(lastMessage)
             /\ \E i \in 1..Len(mediaHistory) : mediaHistory[i] = Entry(lastMessage))
          => mediaHistory' = mediaHistory]_vars
    /\ [](\A m \in MediaMsgs :
            MediaHistoryUpdater(MediaHistoryUpdater(mediaHistory, NewMedia(m)),
                                NewMedia(m))
            = MediaHistoryUpdater(mediaHistory, NewMedia(m)))

\* the event processed last is in the history, but not at its head
C3_Witness ==
    /\ ~effectPending
    /\ IsMedia(lastMessage)
    /\ media = NewMedia(lastMessage)
    /\ Len(mediaHistory) >= 3
    /\ mediaHistory[1] # Entry(lastMessage)
    /\ mediaHistory[3] = Entry(lastMessage)

-----------------------------------------------------------------------------
(* Connection state machine *)

IsEvent(msg, e) == Is(msg, "event", e)

\* the {connected, name, address} of a status or connect result
SessionOf(msg) ==
    [connected |-> msg.connected, name |-> msg.name, address |-> msg.address]

NoSession == [connected |-> FALSE, name |-> "Unknown", address |-> null]

ScanCommand == [event |-> "ble-scan"]
ConnectCommand(a) == [event |-> "ble-connect", address |-> a]
DisconnectCommand == [event |-> "ble-disconnect"]

\* C4: after a ble-scan-result is processed Scanning is false and the
\* candidate list is exactly the event's data, whatever the list was before.
C4_ScanResultReplaces ==
    [][(RunEffect /\ IsEvent(lastMessage, "ble-scan-result"))
       => /\ isScanning' = FALSE
          /\ devices' = lastMessage.data]_vars

\* Pet-01 was a candidate (a connect to it is pending); the processed scan
\* result lists other candidates only
C4_Witness ==
    /\ ~effectPending
    /\ IsEvent(lastMessage, "ble-scan-result")
    /\ lastMessage.data = <<PetTwo>>
    /\ devices = <<PetTwo>>
    /\ ~isScanning
    /\ isConnecting = PetOne.address

\* C5 as claimed: processing a ble-status-result or a ble-connect-result sets
\* Session to the message's {connected, name, address} and leaves Connecting
\* null.
C5_BothClearConnecting ==
    [][(RunEffect /\ (\/ IsEvent(lastMessage, "ble-status-result")
                      \/ IsEvent(lastMessage, "ble-connect-result")))
       => /\ device' = SessionOf(lastMessage)
          /\ isConnecting' = null]_vars

\* C5 as amended: both events set Session to the message's {connected, name,
\* address}; a ble-connect-result leaves Connecting null, a ble-status-result
\* leaves Connecting as it was.
C5_ConnectResultClearsConnecting ==
    [][RunEffect
       => /\ IsEvent(lastMessage, "ble-connect-result")
               => /\ device' = SessionOf(lastMessage)
                  /\ isConnecting' = null
          /\ IsEvent(lastMessage, "ble-status-result")
               => /\ device' = SessionOf(lastMessage)
                  /\ isConnecting' = isConnecting]_vars

\* a ble-status-result was processed while a connect was pending
C5_Witness ==
    /\ ~effectPending
    /\ IsEvent(lastMessage, "ble-status-result")
    /\ device = SessionOf(lastMessage)
    /\ isConnecting = PetOne.address

\* C6: processing a ble-disconnect-result sets Session to {connected: false,
\* name: "Unknown", address: null}, and the scan surface is then selected.
C6_DisconnectResultResets ==
    [][(RunEffect /\ IsEvent(lastMessage, "ble-disconnect-result"))
       => /\ device' = NoSession
          /\ ScanSurface(device')
          /\ ~ConnectedCard(device')]_vars

\* the disconnect was sent from the connected-device card, and its result
\* has been processed
C6_Witness ==
    /\ ~effectPending
    /\ IsEvent(lastMessage, "ble-disconnect-result")
    /\ device = NoSession
    /\ wire = <<Stringify(DisconnectCommand)>>

SessionAddressed(d) == d = NullObj \/ (d.connected => d.address # null)

\* a status or connect result whose connected = true comes with an address
Addressed(msg) ==
    (IsEvent(msg, "ble-status-result") \/ IsEvent(msg, "ble-connect-result"))
        => (msg.connected => msg.address # null)

\* C8 as claimed: in every reachable state Session.connected = true implies
\* that Session.address is not null.
C8_ConnectedHasAddress == SessionAddressed(device)

\* C8 as amended: Session.connected = true implies a non-null Session.address
\* at the start, and every step keeps it so, except the processing of a
\* status or connect result that itself has connected = true and a null
\* address.
C8_ConnectedHasAddressIfMessagesDo ==
    /\ SessionAddressed(device)
    /\ [][(SessionAddressed(device) /\ (RunEffect => Addressed(lastMessage)))
          => SessionAddressed(device')]_vars

\* a connect result with connected = true and an address was processed
C8_Witness ==
    /\ ~effectPending
    /\ IsEvent(lastMessage, "ble-connect-result")
    /\ lastMessage.connected /\ lastMessage.address = "AA:BB"
    /\ device = SessionOf(lastMessage)

\* C9: a scan click changes only Scanning, to true; a connect click changes
\* only Connecting, to the address clicked; a disconnect click changes no
\* component state; Session changes in no step but a run of the effect.
C9_CommandsLeaveSession ==
    [][/\ ClickScan
            => /\ isScanning' = TRUE
               /\ UNCHANGED <<isConnecting, device, devices, media, mediaHistory>>
       /\ \A i \in 1..MaxDevices :
            (ClickDevice(i) /\ FalsyStr(isConnecting))
            => /\ isConnecting' = devices[i].address
               /\ UNCHANGED <<isScanning, device, devices, media, mediaHistory>>
       /\ ClickDisconnect => UNCHANGED ui
       /\ device' # device => RunEffect]_vars

\* a disconnect was issued from the connected-device card of a connected
\* session, and the session is still connected
C9_Witness ==
    /\ wire = <<Stringify(DisconnectCommand)>>
    /\ device # NullObj
    /\ device.connected
    /\ ~effectPending

\* what send(m) does to the channel
SendOutcome(m) ==
    /\ socket' = socket
    /\ timers' = timers
    /\ socket = "OPEN" => wire' = Append(wire, Stringify(m))
    /\ socket # "OPEN" => wire' = wire

\* C10: send(m) transmits m if and only if the socket is open when it is
\* called; otherwise it changes no channel state; and no step other than a
\* send on an open socket ever puts a frame on the wire.
C10_SendOnlyWhenOpen ==
    [][/\ ClickScan => SendOutcome(ScanCommand)
       /\ \A i \in 1..MaxDevices :
            (ClickDevice(i) /\ FalsyStr(isConnecting))
            => SendOutcome(ConnectCommand(devices[i].address))
       /\ ClickDisconnect => SendOutcome(DisconnectCommand)
       /\ wire' # wire
            => /\ socket = "OPEN"
               /\ ClickScan \/ ClickDisconnect \/ \E i \in 1..MaxDevices : ClickDevice(i)]_vars

\* the scan command was dropped while the first socket was connecting; the
\* socket is open now and nothing was transmitted
C10_Witness ==
    /\ isScanning
    /\ socket = "OPEN"
    /\ wire = <<>>
    /\ timers = 0

-----------------------------------------------------------------------------
(* The reconnect loop and the listener registry of WebSocketClient *)

\* C11: every close of a connection, of an open one or of an attempt that
\* never got open, schedules exactly one reconnect timer with the fixed delay
\* of 2000 ms; a new connection is created only by such a timer firing; and
\* when the timers fire, every close is followed by a new connection attempt
C11_ReconnectAfterEveryClose ==
    /\ [][SocketClose => timers' = timers + 1 /\ timerDelay' = reconnectDelay]_vars
    /\ [][instances' > instances =>
            instances' = instances + 1 /\ timers' = timers - 1
            /\ socket = "CLOSED" /\ socket' = "CONNECTING"]_vars
    /\ (socket = "CLOSED") ~> (socket = "CONNECTING")

\* a connection has closed once more after two connections got open, and its
\* reconnect timer is pending
C11_Witness ==
    /\ socket = "CLOSED"
    /\ timers = 1
    /\ timerDelay = reconnectDelay
    /\ opens >= 2

\* a is an initial part of b
IsPrefix(a, b) == Len(a) <= Len(b) /\ \A i \in 1..Len(a) : a[i] = b[i]

\* callback cb was invoked with data d in the emission of event e just made
Invoked(cb, e, d) == \E j \in 1..Len(calls') : calls'[j] = Invocation(cb, e, d)

\* C12: no step removes a callback from the registry (every list of the
\* registry only grows at its end, reconnects included), and every open and
\* every message event of whatever connection instance invokes each callback
\* that is in the registry for it
C12_CallbacksSurviveReconnects ==
    /\ [][\A e \in DOMAIN listeners :
            e \in DOMAIN listeners' /\ IsPrefix(listeners[e], listeners'[e])]_vars
    /\ [][SocketOpen =>
            \A i \in 1..Len(Callbacks("open")) :
                Invoked(Callbacks("open")[i], "open", NullObj)]_vars
    /\ [][Dispatch =>
            \A i \in 1..Len(Callbacks("message")) :
                Invoked(Callbacks("message")[i], "message", DataOf(Head(inflight)))]_vars

\* on() was called twice in all, and after the open callback has seen two
\* connections open the message callback is invoked
C12_Witness ==
    /\ Registered = 2
    /\ opens >= 2
    /\ Len(calls) = 1
    /\ calls[1].event = "message"

\* C13: at most one connection instance is connecting or open, at most one
\* reconnect timer is pending, and never both at once; the socket the client
\* holds is that instance; a new instance is created only when none is left
C13_OneInstanceOneTimer ==
    /\ [](/\ instances \in {0, 1}
          /\ timers \in {0, 1}
          /\ instances + timers = 1
          /\ (instances = 1) = (socket \in {"CONNECTING", "OPEN"}))
    /\ [][instances' > instances => instances = 0 /\ socket = "CLOSED"]_vars

\* a later connection instance is connecting: an earlier one had been open and
\* has closed, its timer has fired
C13_Witness ==
    /\ socket = "CONNECTING"
    /\ instances = 1
    /\ timers = 0
    /\ opens >= 1

\* the invocations an emission of event e with data d makes, in order
Emission(e, d) ==
    [i \in 1..Len(Callbacks(e)) |-> Invocation(Callbacks(e)[i], e, d)]

\* C14: the message event of a payload that is no JSON invokes every message
\* callback with the text of the payload itself, leaves the connection open
\* with no reconnect scheduled and takes just that payload off the queue; and
\* whenever the socket is open, the next queued payload can be dispatched
C14_RawPassthrough ==
    /\ [][Dispatch /\ ~JSONParse(Head(inflight)).ok =>
            /\ calls' = Emission("message", [string |-> Head(inflight).text])
            /\ socket' = "OPEN"
            /\ timers' = timers
            /\ inflight' = Tail(inflight)]_vars
    /\ [](socket = "OPEN" /\ inflight # <<>> => ENABLED Dispatch)

\* a message callback holds the text of an unparseable payload, and the
\* payload that arrived after it is about to be dispatched
C14_Witness ==
    /\ socket = "OPEN"
    /\ Len(calls) > 0
    /\ calls[1].event = "message"
    /\ "string" \in DOMAIN calls[1].data
    /\ inflight # <<>>

\* C15: a message event delivers the payload that arrived first among those
\* of the current connection not delivered yet and leaves the later ones
\* queued in their order; an arriving payload queues behind the others;
\* nothing is dispatched unless the socket is open; and the connection a
\* reconnect creates starts with nothing to deliver, whatever the closed
\* connection had left
C15_ArrivalOrder ==
    /\ [][Dispatch =>
            /\ calls' = Emission("message", DataOf(Head(inflight)))
            /\ inflight' = Tail(inflight)]_vars
    /\ [][\A p \in ChannelPayloads : Arrive(p) =>
            Len(inflight') = Len(inflight) + 1
            /\ IsPrefix(inflight, inflight')
            /\ inflight'[Len(inflight')] = p]_vars
    /\ [](socket # "OPEN" => ~ENABLED Dispatch)
    /\ [][ReconnectTimer => inflight' = <<>>]_vars

\* a connection has closed with two payloads received and not delivered, and
\* a message callback is registered
C15_Witness ==
    /\ socket = "CLOSED"
    /\ Len(inflight) = 2
    /\ Callbacks("message") # <<>>

\* C16: on(e, cb) puts cb at the end of the list of e and leaves the lists of
\* the other names alone; the emission of open, of close and of message each
\* invokes exactly the callbacks of the list of its own name, from the first
\* registered to the last, with the data of the event
C16_RegistrationOrder ==
    /\ [][\A e \in EventNames, cb \in Probes : On(e, cb) =>
            /\ listeners'[e] = Append(Callbacks(e), cb)
            /\ \A f \in DOMAIN listeners \ {e} : listeners'[f] = listeners[f]
            /\ DOMAIN listeners' = DOMAIN listeners \cup {e}]_vars
    /\ [][SocketOpen => calls' = Emission("open", NullObj)]_vars
    /\ [][SocketClose => calls' = Emission("close", NullObj)]_vars
    /\ [][\A p \in ChannelPayloads : Dispatch /\ Head(inflight) = p =>
            calls' = Emission("message", DataOf(p))]_vars

\* three callbacks are registered; the emission just made invoked two of them,
\* the one registered first being probe 2, and not the third
C16_Witness ==
    /\ Registered = 3
    /\ Len(calls) = 2
    /\ calls[1].callback = "probe 2"
    /\ calls[2].callback = "probe 1"
    /\ Len(Callbacks(calls[1].event)) = 2

-----------------------------------------------------------------------------
(* The supervision of the worker and the window, tray and quit handling of the
   main process *)

\* C17: over a whole run at most one worker process is started; in
\* development no spawn is attempted and no handle exists; and once a handle
\* exists no step of the main process (window creation at launch, tray show,
\* tray double-click, re-activation, close, quit) spawns again or replaces it
C17_AtMostOneWorker ==
    /\ [](workers <= 1)
    /\ [](isDev => spawnCalls = 0 /\ workers = 0 /\ backendProcess = null)
    /\ [][backendProcess # null =>
            /\ spawnCalls' = spawnCalls
            /\ workers' = workers
            /\ backendProcess' = backendProcess]_vars

\* the worker was spawned at launch, the window was hidden at a close and the
\* tray's Show App has just shown it again
C17_Witness ==
    /\ workers = 1
    /\ notifications = 1
    /\ log = <<"Show App", "show">>
    /\ mainWindow = "shown"

\* C18: at no time has the forced kill of the worker been issued more than
\* once, and when the application has exited after a worker was started the
\* kill has been issued exactly once
C18_TerminateExactlyOnce ==
    /\ [](kills <= 1)
    /\ [](app = "exited" /\ workers = 1 => kills = 1)

\* C19: every quit intent, from the tray or not, sets isQuitting; while a quit
\* is under way isQuitting is set; and the close event of a quit under way is
\* never turned into a hide that leaves the application running
C19_QuitIntentSetsQuitting ==
    /\ [][QuitRequest \/ TrayExit => isQuitting']_vars
    /\ [](quitRequested => isQuitting)
    /\ [][WindowClose /\ quitRequested => app' = "exited"]_vars

\* the steps 'Exit' makes before Electron acts on app.quit()
ExitSteps == <<"Exit", "isQuitting = true", "tray.destroy", "app.quit">>

\* what before-quit adds: the kill on Windows when a worker handle exists
Teardown ==
    IF backendProcess # null /\ platform = "win32"
    THEN <<"before-quit", "taskkill">>
    ELSE <<"before-quit">>

\* C20: 'Exit' sets isQuitting, then destroys the tray, then calls app.quit();
\* unless a quit was already under way, whose before-quit has run, app.quit()
\* emits before-quit, which issues the kill of the worker; afterwards a quit
\* is under way with isQuitting set, the close event that follows destroys
\* the window instead of hiding it and ends the application, and once
\* isQuitting is set the application does exit
C20_TrayExitOrder ==
    /\ [][TrayExit =>
            /\ IsPrefix(ExitSteps, log')
            /\ isQuitting' /\ tray' = "destroyed" /\ quitRequested'
            /\ ~quitRequested =>
                 /\ IsPrefix(ExitSteps \o Teardown, log')
                 /\ kills' = kills + (Len(Teardown) - 1)]_vars
    /\ [][isQuitting /\ WindowClose =>
            mainWindow' = "destroyed" /\ app' = "exited"]_vars
    /\ isQuitting ~> (app = "exited")

\* after 'Exit' the window was closed and the application has exited, the
\* worker killed once
C20_Witness ==
    /\ app = "exited"
    /\ isQuitting
    /\ tray = "destroyed"
    /\ mainWindow = "destroyed"
    /\ workers = 1
    /\ kills = 1

\* C21: the handler of a close event that finds isQuitting false prevents the
\* default close and hides the window: afterwards the window exists and is
\* not visible, no close is pending any more and the application is running
C21_CloseBecomesHide ==
    [][WindowClose /\ ~isQuitting =>
        /\ IsPrefix(<<"close", "preventDefault", "hide">>, log')
        /\ mainWindow' \in {"hidden", "loading"}
        /\ ~closePending'
        /\ app' = "running"]_vars

\* a window that was shown has been hidden by a close request made through
\* the window itself, the application is running and is not quitting
C21_Witness ==
    /\ mainWindow = "hidden"
    /\ IsPrefix(<<"close", "preventDefault", "hide">>, log)
    /\ app = "running"
    /\ ~isQuitting
    /\ ~quitRequested

\* C22: over a run at most one notification is shown; it is shown by the
\* first close that is turned into a hide, which clears firstMinimize, and by
\* no other step; a later intercepted close shows none
C22_NotifyOnce ==
    /\ [](notifications <= 1)
    /\ []((notifications = 1) = ~firstMinimize)
    /\ [][WindowClose /\ ~isQuitting =>
            /\ notifications' = IF firstMinimize THEN 1 ELSE notifications
            /\ ~firstMinimize']_vars
    /\ [][notifications' # notifications => WindowClose /\ ~isQuitting]_vars

\* a close has just been turned into a hide without a notification, the one
\* notification of the run having been shown at an earlier close
C22_Witness ==
    /\ notifications = 1
    /\ log = <<"close", "preventDefault", "hide">>
    /\ mainWindow = "hidden"

\* C23: no step takes isQuitting from true to false
C23_QuittingLatch == [][isQuitting => isQuitting']_vars

\* isQuitting is set and a handler other than the Exit click has run since
C23_Witness ==
    /\ isQuitting
    /\ log # <<>>
    /\ log[1] # "Exit"

\* step x is among the steps l of a handler
Has(l, x) == \E i \in 1..Len(l) : l[i] = x

\* C24: whenever before-quit runs with a worker handle present it issues the
\* forced kill on win32 and sends a termination signal (a "kill" step) on the
\* other platforms; and the application never exits with a worker started
\* and no termination attempted
C24_TerminateEveryPlatform ==
    /\ [][(QuitRequest \/ TrayExit \/ WindowClose)
          /\ Has(log', "before-quit") /\ backendProcess # null =>
            IF platform = "win32"
            THEN Has(log', "taskkill") /\ kills' = kills + 1
            ELSE Has(log', "kill")]_vars
    /\ [](app = "exited" /\ workers = 1 => kills >= 1)

\* spawn was called in a packaged application and left no handle: it threw
SpawnThrew == ~isDev /\ spawnCalls > 0 /\ backendProcess = null

\* C25: when the spawn of the worker has thrown, the running application has
\* created its window all the same, and it has not exited unless a quit was
\* asked for; live connection instances and pending reconnect timers stay
\* bounded by one each
C25_SpawnThrowStillShows ==
    /\ [](app = "running" /\ SpawnThrew => mainWindow # null)
    /\ [](SpawnThrew /\ app = "exited" => quitRequested)
    /\ [](instances <= 1 /\ timers <= 1)

\* C26: spawn is called at most once in a run: once it has been called,
\* whether it started a worker, returned a handle without a process or
\* threw, no step calls it again
C26_NoSpawnRetry ==
    /\ [](spawnCalls <= 1)
    /\ [][spawnCalls > 0 => spawnCalls' = spawnCalls /\ workers' = workers]_vars

\* the spawn at launch failed, the window was hidden at a close and the
\* tray's Show App has just shown it again without another spawn
C26_Witness ==
    /\ backendProcess = "child without pid"
    /\ workers = 0
    /\ spawnCalls = 1
    /\ log = <<"Show App", "show">>
    /\ notifications = 1

\* C27: the callback of a taskkill that failed writes one console.error line
\* and changes nothing of the window, the tray and the quit under way, as
\* little as the callback of a taskkill that succeeded; the close event of a
\* quitting application ends it whether a taskkill is still running, has
\* failed or has succeeded; and once isQuitting is set after a kill was
\* issued, the application does exit
C27_KillFailureOnlyLogged ==
    /\ [][TaskkillDone(TRUE) =>
            /\ log' = <<"taskkill callback", "console.error">>
            /\ killErrors' = killErrors + 1
            /\ UNCHANGED <<app, quitRequested, closePending, mainWindow,
                           isQuitting, tray>>]_vars
    /\ [][TaskkillDone(FALSE) =>
            /\ killErrors' = killErrors
            /\ UNCHANGED <<app, quitRequested, closePending, mainWindow,
                           isQuitting, tray>>]_vars
    /\ [][isQuitting /\ WindowClose => app' = "exited"]_vars
    /\ (isQuitting /\ kills > 0) ~> (app = "exited")

\* the application has exited after its taskkill had failed
C27_Witness ==
    /\ app = "exited"
    /\ kills = 1
    /\ killErrors = 1
    /\ isQuitting

\* the tray's Show App item is clicked or the tray icon is double-clicked
TrayShow ==
    \E o \in SpawnOutcomes : TrayShowApp(o) \/ TrayDoubleClick(o)

Clipped(v) == IF Times100(v) < 0 THEN 0 ELSE IF Times100(v) > 100 THEN 100 ELSE Times100(v)

\* C30: for every amplitude triple, negative values and values above 1
\* included, the height of each bar a render displays is the value times 100
\* clipped into [0, 100] (amplitude, rms, peak in this order), and no entry
\* of the history ever carries an amplitude value.
C30_BarsClippedNeverStored ==
    /\ [][\A p \in AmplitudeProps :
            Render(p) => bars' = <<Clipped(Prop(p, "amplitude")),
                                   Clipped(Prop(p, "rms")),
                                   Clipped(Prop(p, "peak"))>>]_vars
    /\ [](\A i \in 1..Len(mediaHistory) :
            /\ "audio_amplitude" \notin DOMAIN mediaHistory[i]
            /\ AmplitudeFields \cap DOMAIN mediaHistory[i] = {})


\* C31: in every state where the application runs, no quit is under way and
\* isQuitting is false (close requests are still turned into a hide), no kill
\* of the worker has been issued: an aborted quit never leaves the application
\* running with its worker killed.
C31_NoKillWhileNotQuitting ==
    app = "running" /\ ~isQuitting /\ ~quitRequested => kills = 0


\* C32: every message delivered to the provider's subscriber is interpreted
\* by the effect exactly once and in arrival order: no delivery replaces a
\* lastMessage that the effect has yet to interpret, and the effect runs only
\* for a message it has not interpreted.
C32_EveryMessageInterpreted ==
    /\ [][\A p \in BlePayloads : Receive(p) => ~effectPending]_vars
    /\ [][RunEffect => effectPending /\ ~effectPending']_vars


\* C33: in every reachable state exactly one of the two surfaces is rendered,
\* the connected-device card or the scan surface.
C33_ExactlyOneSurface ==
    /\ ConnectedCard(device) \/ ScanSurface(device)
    /\ ~(ConnectedCard(device) /\ ScanSurface(device))


\* C34: Scanning becomes true only in a step that transmits a ble-scan command
\* and Connecting becomes an address only in a step that transmits the
\* ble-connect command for it: a command that send() drops leaves neither set.
C34_SetOnlyWhenTransmitted ==
    [][/\ ~isScanning /\ isScanning'
            => wire' = Append(wire, Stringify([event |-> "ble-scan"]))
       /\ isConnecting' # isConnecting /\ isConnecting' # null
            => wire' = Append(wire, Stringify([event |-> "ble-connect",
                                               address |-> isConnecting']))]_vars


\* C35: the message event of a payload invokes each callback registered for
\* message exactly once, in registration order, with the parsed payload (the
\* text when it is no JSON), and leaves it in lastMessage, also when a callback
\* throws: no callback is handed the payload a second time as text.
C35_DeliveredOnce ==
    [][Dispatch =>
        /\ calls' = Recorded(Callbacks("message"), "message", DataOf(Head(inflight)))
        /\ lastMessage' = DataOf(Head(inflight))]_vars


\* C36: at any time at most one client keeps connecting to the worker,
\* however often the effect of the provider has run, and no message event of
\* a client other than the current one writes lastMessage.
C36_OneClient ==
    /\ [](Clients <= 1)
    /\ [][\A i \in 1..MaxStale, p \in ChannelPayloads :
            StaleMessage(i, p) => lastMessage' = lastMessage]_vars


SessionEvents == {"ble-status-result", "ble-connect-result", "ble-disconnect-result"}
Recognized(msg) ==
    \/ IsMedia(msg)
    \/ IsEvent(msg, "ble-scan-result")
    \/ \E e \in SessionEvents : IsEvent(msg, e)

\* C38: processing a media event changes only the snapshot and the history;
\* a ble-scan-result only Scanning and the candidate list; a status, connect
\* or disconnect result neither the candidate list, Scanning, the snapshot nor
\* the history; a message with no recognized tag (a raw payload and null
\* included) nothing; and the arrival of a message and the open and close
\* events of the channel change none of the six values.
C38_OwnTagOnly ==
    [][/\ RunEffect /\ IsMedia(lastMessage)
            => UNCHANGED <<isScanning, isConnecting, device, devices>>
       /\ RunEffect /\ IsEvent(lastMessage, "ble-scan-result")
            => UNCHANGED <<isConnecting, device, media, mediaHistory>>
       /\ RunEffect /\ (\E e \in SessionEvents : IsEvent(lastMessage, e))
            => UNCHANGED <<devices, isScanning, media, mediaHistory>>
       /\ RunEffect /\ ~Recognized(lastMessage) => UNCHANGED ui
       /\ (\E p \in BlePayloads : Receive(p)) => UNCHANGED ui
       /\ SocketOpen \/ SocketClose => UNCHANGED ui]_vars

\* a media event was processed while a scan and a connect were pending and
\* candidates were listed
C38_Witness ==
    /\ ~effectPending
    /\ IsMedia(lastMessage)
    /\ media = NewMedia(lastMessage)
    /\ Len(mediaHistory) = 1
    /\ isScanning
    /\ isConnecting # null
    /\ Len(devices) > 0

=============================================================================
